---- MODULE Spec2Model ----
(***************************************************************************)
(* Model of bukind/life (src/main.go): Conway's Life on a torus with a     *)
(* two-phase update.  Game.Update handles the keyboard, then, unless the   *)
(* game is paused, runs one sub-phase: feed (mark cells Born/Dying from    *)
(* the neighbour counts) or lifeOn (resolve Born/Dying to Alive/Empty).    *)
(*                                                                         *)
(* Two specifications share the variables:                                 *)
(*   Spec    the game: NewGame, then any sequence of Update calls;         *)
(*   FnSpec  feed and lifeOn called directly on a drawn grid (at most two  *)
(*           calls in a row), for the claims about the functions alone.    *)
(***************************************************************************)
EXTENDS Integers, FiniteSets, Sequences, TLC

(* ---------------- bounds of the model ---------------- *)

\* Largest number of cells of the grid a game is started with.
MaxCells == 2

\* Largest number of cells of the four-valued grids feed and lifeOn are applied to.
MaxAnyCells == 4

\* Largest height, width and number of cells of the all-steady grids feed and
\* lifeOn are applied to.
MaxRows == 4

MaxCols == 4

MaxSteadyCells == 12

(* ---------------- program constants (src/main.go:12-33) ---------------- *)

MaxTPS == 60

CellEmpty == 0

CellAlive == 1

CellBorn == 2

CellDying == 3

\* The colour table; only its length and index set matter to the engine.
Colors == <<"empty", "alive", "born", "dying">>

\* Values of the Go type Cell (byte).
Byte == 256

\* The keys processInput polls.
Keys == {"Space", "Left", "Right"}

(* ---------------- state ---------------- *)

VARIABLES
    Board,       \* g.Board.Rows: [0..h-1 -> [0..w-1 -> Cell]]
    FeedPhase,   \* g.FeedPhase
    Paused,      \* g.Paused
    Speed,       \* g.Speed
    tps,         \* the rate last handed to ebiten.SetTPS
    keys,        \* the keys held when the most recent Update polled them
    panicked,    \* a panic has ended the process
    ran,         \* sub-phase the most recent Update ran: "none", "feed", "lifeOn"
    last,        \* most recently executed sub-phase ("none" before the first)
    prev,        \* the sub-phase executed before last ("none" if there is none)
    entry,       \* Board on entry to the most recently executed sub-phase
    entryPrev,   \* Board on entry to the sub-phase before that
    countBoard   \* feed's local countBoard as the most recent feed computed it

vars == <<Board, FeedPhase, Paused, Speed, tps, keys, panicked, ran, last, prev,
          entry, entryPrev, countBoard>>

(* ---------------- helpers ---------------- *)

\* len() of a slice modelled as a function on 0..n-1.
Len0(s) == Cardinality(DOMAIN s)

Min(S) == CHOOSE x \in S : \A y \in S : x <= y

Steady(rows) ==
    \A i \in DOMAIN rows : \A j \in DOMAIN rows[i] : rows[i][j] \in {CellEmpty, CellAlive}

Transitional(rows) ==
    \E i \in DOMAIN rows : \E j \in DOMAIN rows[i] : rows[i][j] \in {CellBorn, CellDying}

(* ---------------- Board ---------------- *)

\* make() panics on a negative length: make([]Row, nRows), and make(Row,
\* nColumns) once for every row.
NewBoardPanics(nColumns, nRows) ==
    nRows < 0 \/ (nRows > 0 /\ nColumns < 0)

\* The board NewBoard returns when it does not panic.
NewBoard(nColumns, nRows) ==
    [i \in 0..(nRows - 1) |-> [j \in 0..(nColumns - 1) |-> CellEmpty]]

\* Mutant of RandomFill: the random value may be len(Colors) itself.
RandomFillOffByOne(b) ==
    [DOMAIN b -> [(IF DOMAIN b = {} THEN {} ELSE DOMAIN b[0]) -> 0..Len(Colors)]]

\* Every outcome of RandomFill: each cell is Cell(rand.Intn(len(Colors))).
RandomFill(b) ==
    [DOMAIN b -> [(IF DOMAIN b = {} THEN {} ELSE DOMAIN b[0]) -> 0..(Len(Colors) - 1)]]

(* ---------------- feed ---------------- *)

\* Row index above i, wrapping (i1 in feed).
RowAbove(rows, i) == IF i - 1 < 0 THEN Len0(rows) - 1 ELSE i - 1

\* Mutant of RowBelow: the bottom edge is clamped instead of wrapped.
RowBelowClamped(rows, i) == IF i + 1 >= Len0(rows) THEN i ELSE i + 1

\* Row index below i, wrapping (i2 in feed).
RowBelow(rows, i) == IF i + 1 >= Len0(rows) THEN 0 ELSE i + 1

\* Mutant of ColLeft: the left edge is clamped instead of wrapped.
ColLeftClamped(tmp, j) == IF j - 1 < 0 THEN 0 ELSE j - 1

\* Column index left of j, wrapping (j1 in feed).
ColLeft(tmp, j) == IF j - 1 < 0 THEN Len0(tmp) - 1 ELSE j - 1

\* Column index right of j, wrapping (j2 in feed).
ColRight(tmp, j) == IF j + 1 >= Len0(tmp) THEN 0 ELSE j + 1

\* tmp after the first inner loop for row i: sum of three adjacent rows.
TmpRow(rows, i) ==
    [j \in DOMAIN rows[i] |->
        (rows[i][j] + rows[RowAbove(rows, i)][j] + rows[RowBelow(rows, i)][j]) % Byte]

\* crow for row i: sum of three adjacent columns of tmp, minus the cell itself.
CRow(rows, i) ==
    LET tmp == TmpRow(rows, i) IN
    [j \in DOMAIN tmp |->
        (tmp[j] + tmp[ColLeft(tmp, j)] + tmp[ColRight(tmp, j)] + Byte - rows[i][j]) % Byte]

\* countBoard after the first loop of feed.
CountBoardOf(rows) == [i \in DOMAIN rows |-> CRow(rows, i)]

\* Mutant of FeedPanics: only values outside the four cell values panic.
FeedPanicsOnUnknownOnly(cell) ==
    cell \notin {CellEmpty, CellAlive, CellBorn, CellDying}

\* The default branch of feed's switch: the cell is neither Empty nor Alive.
FeedPanics(cell) == cell \notin {CellEmpty, CellAlive}

\* Mutant of FeedCell: birth on three or more neighbours.
FeedCellBirthOnThreeOrMore(cell, nbrs) ==
    IF cell = CellEmpty
    THEN (IF nbrs >= 3 THEN CellBorn ELSE cell)
    ELSE (IF nbrs < 2 \/ nbrs > 3 THEN CellDying ELSE cell)

\* Mutant of FeedCell: a live cell with fewer than two neighbours survives.
FeedCellNoLoneliness(cell, nbrs) ==
    IF cell = CellEmpty
    THEN (IF nbrs = 3 THEN CellBorn ELSE cell)
    ELSE (IF nbrs > 3 THEN CellDying ELSE cell)

\* Mutant of FeedCell: a live cell survives on three neighbours only.
FeedCellSurviveOnThreeOnly(cell, nbrs) ==
    IF cell = CellEmpty
    THEN (IF nbrs = 3 THEN CellBorn ELSE cell)
    ELSE (IF nbrs < 3 \/ nbrs > 3 THEN CellDying ELSE cell)

\* The value feed's switch leaves in a cell that does not panic.
FeedCell(cell, nbrs) ==
    IF cell = CellEmpty
    THEN (IF nbrs = 3 THEN CellBorn ELSE cell)
    ELSE (IF nbrs < 2 \/ nbrs > 3 THEN CellDying ELSE cell)

\* Row-major position of the first of the cells `bad` whose switch branch
\* panics, or the number n of cells if there is none.
FirstPanic(n, bad) == IF bad = {} THEN n ELSE Min(bad)

\* Row-major positions of the cells at which feed's switch panics.
FeedBad(rows, w) ==
    {k \in 0..(Len0(rows) * w - 1) : FeedPanics(rows[k \div w][k % w])}

\* The second loop of feed: the row-major sweep over the cells, which stops
\* at the first cell that panics (the cells before it are already rewritten).
FeedSweep(rows, w, cb, stop) ==
    [Rows |-> [i \in DOMAIN rows |-> [j \in DOMAIN rows[i] |->
                    IF i * w + j < stop THEN FeedCell(rows[i][j], cb[i][j])
                                        ELSE rows[i][j]]],
     panic |-> stop < Len0(rows) * w,
     countBoard |-> cb]

\* feed: rows[0] panics (index out of range) on a board without rows;
\* otherwise the counts first, then the sweep.
feed(rows) ==
    IF Len0(rows) = 0
    THEN [Rows |-> rows, panic |-> TRUE, countBoard |-> <<>>]
    ELSE FeedSweep(rows, Len0(rows[0]), CountBoardOf(rows),
                   FirstPanic(Len0(rows) * Len0(rows[0]), FeedBad(rows, Len0(rows[0]))))

(* ---------------- lifeOn ---------------- *)

\* The default branch of lifeOn's switch.
LifeOnPanics(cell) == cell \notin {CellEmpty, CellDying, CellBorn, CellAlive}

\* Mutant of LifeOnCell: Dying is grouped with Born and Alive.
LifeOnCellDyingLives(cell) ==
    IF cell \in {CellEmpty} THEN CellEmpty ELSE CellAlive

\* Mutant of LifeOnCell: a Born cell is left as it is.
LifeOnCellKeepsBorn(cell) ==
    IF cell \in {CellEmpty, CellDying} THEN CellEmpty
    ELSE IF cell = CellBorn THEN CellBorn ELSE CellAlive

\* Mutant of LifeOnCell: Born is grouped with Empty and Dying.
LifeOnCellBornDies(cell) ==
    IF cell \in {CellEmpty, CellDying, CellBorn} THEN CellEmpty ELSE CellAlive

\* Mutant of LifeOnCell: every cell is cleared.
LifeOnCellClears(cell) == CellEmpty

\* The value lifeOn's switch leaves in a cell that does not panic.
LifeOnCell(cell) ==
    IF cell \in {CellEmpty, CellDying} THEN CellEmpty ELSE CellAlive

\* Row-major positions of the cells at which lifeOn's switch panics.
LifeOnBad(rows, w) ==
    {k \in 0..(Len0(rows) * w - 1) : LifeOnPanics(rows[k \div w][k % w])}

\* The loop of lifeOn up to the first cell that panics.
LifeOnSweep(rows, w, stop) ==
    [Rows |-> [i \in DOMAIN rows |-> [j \in DOMAIN rows[i] |->
                    IF i * w + j < stop THEN LifeOnCell(rows[i][j])
                                        ELSE rows[i][j]]],
     panic |-> stop < Len0(rows) * w]

\* lifeOn: one row-major sweep, which stops at the first cell that panics; a
\* board without rows is left as it is.
lifeOn(rows) ==
    IF Len0(rows) = 0
    THEN [Rows |-> rows, panic |-> FALSE]
    ELSE LifeOnSweep(rows, Len0(rows[0]),
                     FirstPanic(Len0(rows) * Len0(rows[0]),
                                LifeOnBad(rows, Len0(rows[0]))))

\* Draw indexes Colors by the cell value: it panics on a value outside the
\* table.
DrawPanics(rows) ==
    \E i \in DOMAIN rows : \E j \in DOMAIN rows[i] :
        rows[i][j] \notin 0..(Len(Colors) - 1)

\* Layout reads len(g.Board.Rows[0]): it panics on a board without rows.
LayoutPanics(rows) == Len0(rows) = 0

(* ---------------- Game ---------------- *)

\* Mutant of NewGameFields: the game starts in the feed phase.
NewGameFieldsFeedFirst == [FeedPhase |-> TRUE, Paused |-> FALSE, Speed |-> 10]

\* The fields NewGame sets before RandomFill.
NewGameFields == [FeedPhase |-> FALSE, Paused |-> FALSE, Speed |-> 10]

\* Mutant of processInput: Left does not clamp Speed at 1.
processInputNoFloor(paused, speed, rate, K) ==
    IF "Space" \in K
    THEN [Paused |-> ~paused, Speed |-> speed, tps |-> rate]
    ELSE IF "Left" \in K
    THEN [Paused |-> paused, Speed |-> speed - 1, tps |-> speed - 1]
    ELSE IF "Right" \in K
    THEN LET s == IF speed + 1 > MaxTPS THEN MaxTPS ELSE speed + 1
         IN [Paused |-> paused, Speed |-> s, tps |-> s]
    ELSE [Paused |-> paused, Speed |-> speed, tps |-> rate]

\* Mutant of processInput: the Space case falls into the Left case.
processInputSpaceSlows(paused, speed, rate, K) ==
    IF "Space" \in K \/ "Left" \in K
    THEN LET s == IF speed - 1 < 1 THEN 1 ELSE speed - 1
         IN [Paused |-> IF "Space" \in K THEN ~paused ELSE paused,
             Speed |-> s, tps |-> s]
    ELSE IF "Right" \in K
    THEN LET s == IF speed + 1 > MaxTPS THEN MaxTPS ELSE speed + 1
         IN [Paused |-> paused, Speed |-> s, tps |-> s]
    ELSE [Paused |-> paused, Speed |-> speed, tps |-> rate]

\* Mutant of processInput: three independent ifs instead of one switch.
processInputAllKeys(paused, speed, rate, K) ==
    LET s1 == IF "Left" \in K THEN (IF speed - 1 < 1 THEN 1 ELSE speed - 1) ELSE speed
        s2 == IF "Right" \in K THEN (IF s1 + 1 > MaxTPS THEN MaxTPS ELSE s1 + 1) ELSE s1
    IN [Paused |-> IF "Space" \in K THEN ~paused ELSE paused,
        Speed |-> s2,
        tps |-> IF K \cap {"Left", "Right"} = {} THEN rate ELSE s2]

\* processInput: the first matching case of the switch, on the keys K held.
processInput(paused, speed, rate, K) ==
    IF "Space" \in K
    THEN [Paused |-> ~paused, Speed |-> speed, tps |-> rate]
    ELSE IF "Left" \in K
    THEN LET s == IF speed - 1 < 1 THEN 1 ELSE speed - 1
         IN [Paused |-> paused, Speed |-> s, tps |-> s]
    ELSE IF "Right" \in K
    THEN LET s == IF speed + 1 > MaxTPS THEN MaxTPS ELSE speed + 1
         IN [Paused |-> paused, Speed |-> s, tps |-> s]
    ELSE [Paused |-> paused, Speed |-> speed, tps |-> rate]

\* Mutant of SkipsPhase: Update never returns early.
SkipsPhaseNever(paused) == FALSE

\* Update's early return: the sub-phase is skipped iff the game is paused
\* after processInput.
SkipsPhase(paused) == paused

\* Mutant of PhaseFor: the branches are swapped.
PhaseForSwapped(fp) == IF fp THEN "lifeOn" ELSE "feed"

\* Update's choice of sub-phase from the old FeedPhase.
PhaseFor(fp) == IF fp THEN "feed" ELSE "lifeOn"

\* The sub-phase part of Update, also the effect of a direct call.
PhaseEffect(name, r) ==
    /\ Board' = r.Rows
    /\ panicked' = r.panic
    /\ countBoard' = IF name = "feed" THEN r.countBoard ELSE countBoard
    /\ last' = name
    /\ prev' = last
    /\ entry' = Board
    /\ entryPrev' = entry

\* Mutant of RunPhase: the other sub-phase runs right after the chosen one.
RunPhaseTwice(name) ==
    LET r1 == IF name = "feed" THEN feed(Board) ELSE lifeOn(Board)
        r2 == IF name = "feed" THEN lifeOn(r1.Rows) ELSE feed(r1.Rows)
    IN /\ Board' = r2.Rows
       /\ panicked' = (r1.panic \/ r2.panic)
       /\ countBoard' = IF name = "feed" THEN r1.countBoard ELSE r2.countBoard
       /\ last' = IF name = "feed" THEN "lifeOn" ELSE "feed"
       /\ prev' = name
       /\ entry' = r1.Rows
       /\ entryPrev' = Board

\* The sub-phase Update runs, also a direct call of feed or lifeOn.
RunPhase(name) ==
    PhaseEffect(name, IF name = "feed" THEN feed(Board) ELSE lifeOn(Board))

\* Mutant of Update: FeedPhase is flipped before the pause check.
UpdateFlipsWhenPaused ==
    /\ ~panicked
    /\ \E K \in SUBSET Keys :
        LET g == processInput(Paused, Speed, tps, K) IN
        /\ keys' = K
        /\ Paused' = g.Paused
        /\ Speed' = g.Speed
        /\ tps' = g.tps
        /\ FeedPhase' = ~FeedPhase
        /\ IF SkipsPhase(g.Paused)
           THEN /\ ran' = "none"
                /\ UNCHANGED <<Board, panicked, last, prev, entry,
                               entryPrev, countBoard>>
           ELSE /\ ran' = PhaseFor(FeedPhase)
                /\ RunPhase(PhaseFor(FeedPhase))

\* Update: processInput, the early return when paused, else the flip of
\* FeedPhase and the sub-phase the old FeedPhase selects.
Update ==
    /\ ~panicked
    /\ \E K \in SUBSET Keys :
        LET g == processInput(Paused, Speed, tps, K) IN
        /\ keys' = K
        /\ Paused' = g.Paused
        /\ Speed' = g.Speed
        /\ tps' = g.tps
        /\ IF SkipsPhase(g.Paused)
           THEN /\ ran' = "none"
                /\ UNCHANGED <<Board, FeedPhase, panicked, last, prev, entry,
                               entryPrev, countBoard>>
           ELSE /\ FeedPhase' = ~FeedPhase
                /\ ran' = PhaseFor(FeedPhase)
                /\ RunPhase(PhaseFor(FeedPhase))

\* Grid sizes <<nColumns, nRows>> the game is started with.
GameDims ==
    {d \in (1..MaxCells) \X (1..MaxCells) : d[1] * d[2] <= MaxCells}

\* The state NewGame returns, for every outcome of RandomFill.
NewGame(nColumns, nRows) ==
    /\ Board \in RandomFill(NewBoard(nColumns, nRows))
    /\ FeedPhase = NewGameFields.FeedPhase
    /\ Paused = NewGameFields.Paused
    /\ Speed = NewGameFields.Speed
    /\ tps = NewGameFields.Speed

NoHistory ==
    /\ keys = {}
    /\ panicked = FALSE
    /\ ran = "none"
    /\ last = "none"
    /\ prev = "none"
    /\ entry = <<>>
    /\ entryPrev = <<>>
    /\ countBoard = <<>>

Init ==
    /\ \E d \in GameDims : NewGame(d[1], d[2])
    /\ NoHistory

Next == Update

Spec == Init /\ [][Next]_vars

(* ---------------- NewGame called with any dimensions ---------------- *)

\* Sizes <<nColumns, nRows>> NewGame is called with: the sizes of GameDims
\* and every size with a zero or negative dimension.
AnyDims ==
    {d \in ((0 - MaxCells)..MaxCells) \X ((0 - MaxCells)..MaxCells) :
        (d[1] >= 1 /\ d[2] >= 1) => d \in GameDims}

\* NewGame panics inside NewBoard and no game exists (the fields are never
\* read), or it returns the game.
DimInit ==
    \E d \in AnyDims :
        IF NewBoardPanics(d[1], d[2])
        THEN /\ Board = <<>>
             /\ FeedPhase = NewGameFields.FeedPhase
             /\ Paused = NewGameFields.Paused
             /\ Speed = NewGameFields.Speed
             /\ tps = NewGameFields.Speed
             /\ keys = {}
             /\ panicked = TRUE
             /\ ran = "none"
             /\ last = "none"
             /\ prev = "none"
             /\ entry = <<>>
             /\ entryPrev = <<>>
             /\ countBoard = <<>>
        ELSE NewGame(d[1], d[2]) /\ NoHistory

DimSpec == DimInit /\ [][Next]_vars

(* ---------------- feed and lifeOn called directly ---------------- *)

\* All-steady grids of every height and width within the bounds.
SteadyGrids ==
    UNION {[0..(h - 1) -> [0..(w - 1) -> {CellEmpty, CellAlive}]] :
            <<h, w>> \in {d \in (1..MaxRows) \X (1..MaxCols) :
                            d[1] * d[2] <= MaxSteadyCells}}

\* Grids over all four cell values.
AnyGrids ==
    UNION {[0..(d[2] - 1) -> [0..(d[1] - 1) -> 0..(Len(Colors) - 1)]] :
            d \in {e \in (1..MaxAnyCells) \X (1..MaxAnyCells) : e[1] * e[2] <= MaxAnyCells}}

\* The 5x5 grid with a horizontal blinker: Alive at row 2, columns 1, 2, 3.
Blinker ==
    [i \in 0..4 |-> [j \in 0..4 |->
        IF i = 2 /\ j \in {1, 2, 3} THEN CellAlive ELSE CellEmpty]]

FnInit ==
    /\ Board \in SteadyGrids \cup AnyGrids \cup {Blinker}
    /\ FeedPhase = NewGameFields.FeedPhase
    /\ Paused = NewGameFields.Paused
    /\ Speed = NewGameFields.Speed
    /\ tps = NewGameFields.Speed
    /\ NoHistory

CallFeed ==
    /\ ~panicked
    /\ prev = "none"
    /\ RunPhase("feed")
    /\ UNCHANGED <<FeedPhase, Paused, Speed, tps, keys, ran>>

CallLifeOn ==
    /\ ~panicked
    /\ prev = "none"
    /\ RunPhase("lifeOn")
    /\ UNCHANGED <<FeedPhase, Paused, Speed, tps, keys, ran>>

FnNext == CallFeed \/ CallLifeOn

FnSpec == FnInit /\ [][FnNext]_vars

(* ---------------- reference definitions for the claims ---------------- *)

\* The eight offsets of the Moore neighbourhood.
Offsets == {d \in {-1, 0, 1} \X {-1, 0, 1} : d # <<0, 0>>}

RECURSIVE SumOver(_, _)
SumOver(f, S) ==
    IF S = {} THEN 0
    ELSE LET x == CHOOSE y \in S : TRUE IN f[x] + SumOver(f, S \ {x})

\* The naive scan: the sum over the eight offsets of the value at
\* ((i+di) mod height, (j+dj) mod width).
NaiveCount(rows, i, j) ==
    LET h == Len0(rows)
        w == Len0(rows[i])
    IN SumOver([d \in Offsets |-> rows[(i + d[1]) % h][(j + d[2]) % w]], Offsets)

\* The classic Life next generation of a steady grid on the torus.
ClassicNext(rows) ==
    [i \in DOMAIN rows |-> [j \in DOMAIN rows[i] |->
        LET n == NaiveCount(rows, i, j) IN
        IF \/ rows[i][j] = CellEmpty /\ n = 3
           \/ rows[i][j] = CellAlive /\ n \in {2, 3}
        THEN CellAlive ELSE CellEmpty]]

(* ---------------- claims ---------------- *)

\* C1: on every all-steady grid, feed followed by lifeOn yields exactly the
\* classic Life next generation on the torus (birth on 3, survival on 2 or 3,
\* every other cell Empty), and neither call panics.
C1_ClassicLife ==
    (last = "lifeOn" /\ prev = "feed" /\ Steady(entryPrev))
        => (~panicked /\ Board = ClassicNext(entryPrev))

\* A generation on a grid of at least 3x3 in which a cell was born, a cell died and a cell survived.
C1_Witness ==
    /\ last = "lifeOn" /\ prev = "feed" /\ Steady(entryPrev)
    /\ Len0(Board) >= 3 /\ Len0(Board[0]) >= 3
    /\ \E i \in DOMAIN Board : \E j \in DOMAIN Board[i] :
          entryPrev[i][j] = CellEmpty /\ Board[i][j] = CellAlive
    /\ \E i \in DOMAIN Board : \E j \in DOMAIN Board[i] :
          entryPrev[i][j] = CellAlive /\ Board[i][j] = CellEmpty
    /\ \E i \in DOMAIN Board : \E j \in DOMAIN Board[i] :
          entryPrev[i][j] = CellAlive /\ Board[i][j] = CellAlive

\* C2: in the game, every feed starts on an all-steady grid, right after a
\* lifeOn, and no panic is ever reached.
C2_FeedAfterResolve ==
    /\ ~panicked
    /\ last = "feed" => (Steady(entry) /\ prev = "lifeOn")

\* A feed has run although RandomFill had put Born or Dying cells on the grid.
C2_Witness ==
    /\ last = "feed" /\ prev = "lifeOn"
    /\ Transitional(entryPrev)
    /\ ~panicked

Opposite(phase) == IF phase = "feed" THEN "lifeOn" ELSE "feed"

\* C3 as stated: with no pause input the first Update runs the mark sub-phase
\* (feed) and every later Update runs the opposite of the previous one.
C3_FirstIsMark ==
    [][(~Paused /\ "Space" \notin keys')
         => IF last = "none" THEN ran' = "feed"
            ELSE ran # "none" /\ ran' = Opposite(ran)]_vars

\* C3 (amended): with no pause input the first Update runs the resolve
\* sub-phase (lifeOn) and every later Update runs the opposite of the previous
\* one: resolve, mark, resolve, mark, ...
C3_FirstIsResolve ==
    [][(~Paused /\ "Space" \notin keys')
         => IF last = "none" THEN ran' = "lifeOn"
            ELSE ran # "none" /\ ran' = Opposite(ran)]_vars

\* The third sub-phase in a row: lifeOn, feed, lifeOn.
C3_Witness ==
    /\ ran = "lifeOn" /\ last = "lifeOn" /\ prev = "feed"
    /\ ~Paused /\ "Space" \notin keys

\* C4: after feed on an all-steady grid, every cell follows the mark rule on
\* the neighbour counts of the grid as it was on entry: Born iff Empty with
\* exactly 3, Empty stays Empty otherwise, Alive stays Alive with 2 or 3,
\* Dying iff Alive with any other count.
C4_MarkRule ==
    (last = "feed" /\ Steady(entry)) =>
        /\ ~panicked
        /\ \A i \in DOMAIN entry : \A j \in DOMAIN entry[i] :
            LET n == NaiveCount(entry, i, j) IN
            /\ (Board[i][j] = CellBorn) <=> (entry[i][j] = CellEmpty /\ n = 3)
            /\ (Board[i][j] = CellDying) <=> (entry[i][j] = CellAlive /\ n \notin {2, 3})
            /\ (entry[i][j] = CellEmpty /\ n # 3) => Board[i][j] = CellEmpty
            /\ (entry[i][j] = CellAlive /\ n \in {2, 3}) => Board[i][j] = CellAlive

\* A mark on a grid of at least 3x3 in which all four outcomes occur.
C4_Witness ==
    /\ last = "feed" /\ Steady(entry)
    /\ Len0(Board) >= 3 /\ Len0(Board[0]) >= 3
    /\ \A c \in {CellEmpty, CellAlive, CellBorn, CellDying} :
          \E i \in DOMAIN Board : \E j \in DOMAIN Board[i] : Board[i][j] = c

\* C5: on every all-steady grid, the count feed computes for each cell by the
\* row sum, then the column sum, minus the cell itself equals the naive sum
\* over the eight wrapped offsets.
C5_CountIsNaive ==
    (last = "feed" /\ Steady(entry)) =>
        countBoard = [i \in DOMAIN entry |-> [j \in DOMAIN entry[i] |->
                        NaiveCount(entry, i, j)]]

\* A live cell on a grid of width 2 and height 1: it is its own neighbour
\* twice, and the neighbour of the other cell six times.
C5_Witness ==
    /\ last = "feed" /\ Steady(entry)
    /\ Len0(entry) = 1 /\ Len0(entry[0]) = 2
    /\ entry[0][0] = CellAlive /\ entry[0][1] = CellEmpty
    /\ countBoard[0][0] = 2 /\ countBoard[0][1] = 6

\* C6 as stated: whenever a cell is Born or Dying, the most recently executed
\* sub-phase was feed and the next one to run is lifeOn; Born and Dying never
\* survive a lifeOn.
C6_OnlyAfterMark ==
    /\ Transitional(Board) => (last = "feed" /\ PhaseFor(FeedPhase) = "lifeOn")
    /\ last = "lifeOn" => ~Transitional(Board)

\* C6 (amended): whenever a cell is Born or Dying, either the most recently
\* executed sub-phase was feed or no sub-phase has run yet (the grid is still
\* as RandomFill left it), and the next sub-phase to run is lifeOn; Born and
\* Dying never survive a lifeOn.
C6_AfterMarkOrFill ==
    /\ Transitional(Board) =>
          (last \in {"feed", "none"} /\ PhaseFor(FeedPhase) = "lifeOn")
    /\ last = "lifeOn" => ~Transitional(Board)

\* A grid marked by feed, waiting for its lifeOn.
C6_Witness ==
    /\ Transitional(Board) /\ last = "feed" /\ ~FeedPhase

\* C7: an Update that leaves the game paused runs no sub-phase and changes
\* neither the Board nor FeedPhase; a pause toggle or a speed change received
\* while paused is still applied.
C7_PauseFreeze ==
    [][/\ Paused' => /\ ran' = "none"
                     /\ Board' = Board
                     /\ FeedPhase' = FeedPhase
                     /\ last' = last
       /\ (Paused /\ keys' = {"Space"}) => ~Paused'
       /\ (Paused /\ keys' = {"Left"}) =>
             (Paused' /\ Speed' = IF Speed = 1 THEN 1 ELSE Speed - 1)
       /\ (Paused /\ keys' = {"Right"}) =>
             (Paused' /\ Speed' = IF Speed = MaxTPS THEN MaxTPS ELSE Speed + 1)]_vars

\* Paused on a marked grid, with a speed change just applied.
C7_Witness ==
    /\ Paused /\ ran = "none" /\ keys = {"Right"}
    /\ Speed = NewGameFields.Speed + 1
    /\ last = "feed" /\ Transitional(Board) /\ ~FeedPhase

\* C8: on every grid that holds a Born or Dying cell on entry, feed ends in
\* its panic.
C8_FeedPanicsOnTransitional ==
    (last = "feed" /\ Transitional(entry)) => panicked

\* feed has panicked on a fresh grid after rewriting the cells before the
\* offending one.
C8_Witness ==
    /\ last = "feed" /\ prev = "none" /\ Transitional(entry)
    /\ panicked
    /\ Board # entry

\* C9: a Left at Speed 1 leaves Speed 1, a Right at Speed MaxTPS leaves it
\* MaxTPS, otherwise each of them changes Speed by exactly 1; no panic.
C9_SpeedSaturates ==
    [][/\ keys' = {"Left"} => Speed' = IF Speed = 1 THEN 1 ELSE Speed - 1
       /\ keys' = {"Right"} => Speed' = IF Speed = MaxTPS THEN MaxTPS ELSE Speed + 1
       /\ ~panicked']_vars

\* Speed at the upper bound with Right held.
C9_Witness ==
    /\ Speed = MaxTPS /\ keys = {"Right"} /\ tps = MaxTPS

\* C10: Speed is 10 after NewGame, stays within 1..MaxTPS, and changes only
\* in an Update that handles Left or Right.
C10_SpeedBounds ==
    /\ Speed = 10
    /\ [](Speed \in 1..MaxTPS)
    /\ [][Speed' # Speed =>
            ("Space" \notin keys' /\ keys' \cap {"Left", "Right"} # {})]_vars

\* Speed at the lower bound while sub-phases keep running.
C10_Witness ==
    /\ Speed = 1 /\ keys = {} /\ ran = "feed" /\ ~Paused

\* C11: after lifeOn on any grid over the four cell values, each cell that
\* was Empty or Dying is Empty and each cell that was Born or Alive is Alive;
\* the result is all-steady and lifeOn does not panic.
C11_ResolveMapping ==
    last = "lifeOn" =>
        /\ ~panicked
        /\ Steady(Board)
        /\ DOMAIN Board = DOMAIN entry
        /\ \A i \in DOMAIN entry : \A j \in DOMAIN entry[i] :
            /\ entry[i][j] \in {CellEmpty, CellDying} => Board[i][j] = CellEmpty
            /\ entry[i][j] \in {CellBorn, CellAlive} => Board[i][j] = CellAlive

\* lifeOn has run directly on a grid that held all four cell values.
C11_Witness ==
    /\ last = "lifeOn" /\ prev = "none"
    /\ \A c \in {CellEmpty, CellAlive, CellBorn, CellDying} :
          \E i \in DOMAIN entry : \E j \in DOMAIN entry[i] : entry[i][j] = c

\* C12: lifeOn leaves every all-steady grid unchanged, and a second lifeOn
\* right after a lifeOn changes nothing.
C12_ResolveIdempotent ==
    /\ (last = "lifeOn" /\ Steady(entry)) => Board = entry
    /\ (last = "lifeOn" /\ prev = "lifeOn") => Board = entry

\* A second lifeOn in a row, on a grid that began with Born and Dying cells
\* and still has live cells.
C12_Witness ==
    /\ last = "lifeOn" /\ prev = "lifeOn"
    /\ Transitional(entryPrev)
    /\ \E i \in DOMAIN Board : \E j \in DOMAIN Board[i] : Board[i][j] = CellAlive

\* C13 as stated: one feed on the 5x5 blinker turns all three blinker cells
\* (2,1), (2,2), (2,3) into Dying, turns (1,2) and (3,2) into Born and leaves
\* every other cell Empty.
C13_AllThreeDying ==
    (last = "feed" /\ entry = Blinker) =>
        Board = [i \in 0..4 |-> [j \in 0..4 |->
                    IF i = 2 /\ j \in {1, 2, 3} THEN CellDying
                    ELSE IF i \in {1, 3} /\ j = 2 THEN CellBorn
                    ELSE CellEmpty]]

\* C13 (amended): one feed on the 5x5 blinker turns the two end cells (2,1)
\* and (2,3) into Dying, leaves the middle cell (2,2) Alive (it has two live
\* neighbours), turns (1,2) and (3,2) into Born and leaves every other cell
\* Empty.
C13_EndsDying ==
    (last = "feed" /\ entry = Blinker) =>
        /\ ~panicked
        /\ Board = [i \in 0..4 |-> [j \in 0..4 |->
                    IF i = 2 /\ j \in {1, 3} THEN CellDying
                    ELSE IF i = 2 /\ j = 2 THEN CellAlive
                    ELSE IF i \in {1, 3} /\ j = 2 THEN CellBorn
                    ELSE CellEmpty]]

\* feed has run directly on the blinker, whose middle cell counted two
\* neighbours and whose end cells counted one.
C13_Witness ==
    /\ last = "feed" /\ prev = "none" /\ entry = Blinker
    /\ countBoard[2][2] = 2 /\ countBoard[2][1] = 1 /\ countBoard[2][3] = 1

\* C14: feed then lifeOn on the 5x5 horizontal blinker gives the vertical
\* blinker: Alive at column 2, rows 1, 2, 3, every other cell Empty.
C14_BlinkerCycle ==
    (last = "lifeOn" /\ prev = "feed" /\ entryPrev = Blinker) =>
        /\ ~panicked
        /\ Board = [i \in 0..4 |-> [j \in 0..4 |->
                    IF j = 2 /\ i \in {1, 2, 3} THEN CellAlive ELSE CellEmpty]]

\* The blinker after its mark and its resolve.
C14_Witness ==
    /\ last = "lifeOn" /\ prev = "feed" /\ entryPrev = Blinker
    /\ Board[1][2] = CellAlive /\ Board[2][1] = CellEmpty

\* Only cell (0,0) is Alive, every other cell is Empty.
OnlyCorner(rows) ==
    \A i \in DOMAIN rows : \A j \in DOMAIN rows[i] :
        rows[i][j] = IF i = 0 /\ j = 0 THEN CellAlive ELSE CellEmpty

\* C15: with only (0,0) Alive, the counts feed computes for (height-1, 0),
\* (0, width-1) and (height-1, width-1) are at least 1, and exactly 1 when
\* width and height are at least 3.
C15_CornerWrap ==
    (last = "feed" /\ OnlyCorner(entry)) =>
        LET h == Len0(entry)
            w == Len0(entry[0])
            cs == {countBoard[h - 1][0], countBoard[0][w - 1], countBoard[h - 1][w - 1]}
        IN /\ \A c \in cs : c >= 1
           /\ (h >= 3 /\ w >= 3) => cs = {1}

\* The corner grid of at least 3x3 after feed: the opposite corner has been
\* marked with one neighbour.
C15_Witness ==
    /\ last = "feed" /\ OnlyCorner(entry)
    /\ Len0(entry) >= 3 /\ Len0(entry[0]) >= 3
    /\ countBoard[Len0(entry) - 1][Len0(entry[0]) - 1] = 1

\* The board has no rows, or a row without columns.
Degenerate(rows) ==
    Len0(rows) = 0 \/ \E i \in DOMAIN rows : Len0(rows[i]) = 0

\* C16: NewGame with nColumns < 1 or nRows < 1 fails at construction, so a
\* board with zero rows or zero columns exists only as the remains of a
\* failed construction, and no feed or lifeOn ever runs on one.
C16_BadDimsRejected ==
    /\ Degenerate(Board) => (panicked /\ last = "none")
    /\ last # "none" => ~Degenerate(entry)

\* C17: every Update first applies the input, then runs exactly one
\* sub-phase if the game is unpaused after the input and none otherwise; a
\* pause toggled in a call decides whether that same call runs its sub-phase.
C17_OnePhasePerTick ==
    [][/\ Paused' = IF "Space" \in keys' THEN ~Paused ELSE Paused
       /\ IF Paused'
          THEN /\ ran' = "none"
               /\ UNCHANGED <<Board, last, prev, entry, entryPrev>>
          ELSE /\ ran' \in {"feed", "lifeOn"}
               /\ last' = ran'
               /\ prev' = last
               /\ entry' = Board
               /\ entryPrev' = entry]_vars

\* The Update that resumed the game has run a sub-phase itself.
C17_Witness ==
    /\ ~Paused /\ keys = {"Space"}
    /\ ran = "lifeOn" /\ last = "lifeOn" /\ prev = "feed"

\* C18: the executed sub-phases strictly alternate between lifeOn and feed,
\* whatever pause, resume and speed inputs come between them; FeedPhase flips
\* in exactly the Updates that run a sub-phase.
C18_AlternationAcrossPauses ==
    /\ [](prev # "none" => prev = Opposite(last))
    /\ [](last # "none" => PhaseFor(FeedPhase) = Opposite(last))
    /\ [][/\ ran' # "none" =>
                /\ FeedPhase' = ~FeedPhase
                /\ last' = ran'
                /\ last # "none" => ran' = Opposite(last)
          /\ ran' = "none" =>
                /\ FeedPhase' = FeedPhase
                /\ last' = last]_vars

\* A feed run by the Update that resumed the game, after a lifeOn before the
\* pause and a speed change during it.
C18_Witness ==
    /\ ~Paused /\ "Space" \in keys
    /\ ran = "feed" /\ prev = "lifeOn"
    /\ Speed # NewGameFields.Speed

\* C19: processInput applies at most one operation per Update, Space before
\* Left before Right: with Space held Speed is unchanged, with Left and Right
\* held Speed is only decreased.
C19_InputExclusive ==
    [][/\ "Space" \in keys' =>
            (Paused' = ~Paused /\ Speed' = Speed)
       /\ ("Space" \notin keys' /\ "Left" \in keys') =>
            (Paused' = Paused /\ Speed' = IF Speed = 1 THEN 1 ELSE Speed - 1)
       /\ ("Space" \notin keys' /\ "Left" \notin keys' /\ "Right" \in keys') =>
            (Paused' = Paused /\ Speed' = IF Speed = MaxTPS THEN MaxTPS ELSE Speed + 1)
       /\ keys' = {} => (Paused' = Paused /\ Speed' = Speed)]_vars

\* The very first Update, with Left and Right both held: Speed went down.
C19_Witness ==
    /\ keys = {"Left", "Right"}
    /\ ~Paused /\ ran = "lifeOn" /\ prev = "none"
    /\ Speed = NewGameFields.Speed - 1

\* C20: every cell is one of Empty(0), Alive(1), Born(2), Dying(3), so Draw's
\* Colors[cell] is within the colour table.
C20_CellDomain ==
    /\ \A i \in DOMAIN Board : \A j \in DOMAIN Board[i] :
          Board[i][j] \in {CellEmpty, CellAlive, CellBorn, CellDying}
    /\ ~DrawPanics(Board)
    /\ Len(Colors) = 4

\* A feed has left a Dying cell, the last index of the colour table.
C20_Witness ==
    /\ last = "feed"
    /\ \E i \in DOMAIN Board : \E j \in DOMAIN Board[i] : Board[i][j] = CellDying

====
